---------------------------- MODULE Spec2Model ----------------------------
(***************************************************************************)
(* A model of src/pac.py: the `test` and `build` commands of the monorepo  *)
(* change-impact tool.  The repository is a set of packages, each owning   *)
(* one pac.toml manifest; a run classifies manifests as changed or         *)
(* pending, computes the affected packages, orders the changed ones and    *)
(* drives the install / test / upload pipeline, with the cleanup           *)
(* decorator removing the generated files on every exit.                   *)
(*                                                                         *)
(* Three parts of the program are also modelled on their own, each with    *)
(* its own specification: the construction of a ModifiedPackage from a     *)
(* version string (BumpSpec), track_changed_paths (TrackSpec) and the      *)
(* merge command with Pac.create (MergeSpec).                              *)
(***************************************************************************)
EXTENDS Integers, Sequences, FiniteSets, TLC

(***************************************************************************)
(* Bounds of the model.                                                    *)
(***************************************************************************)
\* Total number of main dependencies declared by all manifests together.
MaxDeps == 2

(***************************************************************************)
(* The repository.  A package is identified by the directory holding its   *)
(* pac.toml; for a non-root manifest Pac.create derives the package name   *)
(* from that directory, so directory and name coincide here.               *)
(***************************************************************************)
Pkgs == {"a", "b", "c"}

AUTOGEN_SETUP_PY == "setup.py"
AUTOGEN_REQ_INI == "requirements.ini"
AUTOGEN_REQ_TXT == "requirements.txt"
AutogenFiles == {AUTOGEN_REQ_INI, AUTOGEN_REQ_TXT, AUTOGEN_SETUP_PY}

\* Version strings are sequences of characters, versions are triples.
Digits == {"0", "1", "2", "3", "4", "5", "6", "7", "8", "9"}

\* The version strings a changed manifest declares in the runs of the
\* model: the minor bump 1.* and the concrete version 1.0.0.
Tokens ==
    { <<"1", ".", "*">>,
      <<"1", ".", "0", ".", "0">> }

\* The version every manifest carries on origin/master.
OldVersion == <<1, 0, 0>>

\* Version constraints of the model: the range 1.* and the pin 1.0.0.
Constraints ==
    { [kind |-> "wild", version |-> <<1, 0, 0>>],
      [kind |-> "exact", version |-> <<1, 0, 0>>] }

Deps == [name : Pkgs, constraint : Constraints]

\* The constraint of a source-control dependency (a `git = ...` entry of a
\* manifest).  poetry's VCSDependency hands the constraint "*" to
\* Dependency, whatever the branch, tag or revision it names.
VCSDependency == [kind |-> "vcs", version |-> <<0, 0, 0>>]

\* The manifests in which one package declares one dependency, a
\* source-control dependency on another package.
VCSRequires ==
    {[q \in Pkgs |-> IF q = e[1] THEN <<[name |-> e[2], constraint |-> VCSDependency]>>
                     ELSE <<>>] :
        e \in {f \in Pkgs \X Pkgs : f[1] # f[2]}}

\* What a command leaves on its error channel: nothing, a text holding the
\* word "warning", or any other text.
ErrNone == ""
ErrWarning == "warning"
ErrHard == "error"
Errs == {ErrNone, ErrWarning, ErrHard}

(***************************************************************************)
(* Helpers on sequences.                                                   *)
(***************************************************************************)
Range(s) == {s[i] : i \in 1..Len(s)}

Names(s) == {s[i].name : i \in 1..Len(s)}

IndexOf(s, x) == CHOOSE i \in 1..Len(s) : s[i] = x

RemoveAt(s, i) == SubSeq(s, 1, i - 1) \o SubSeq(s, i + 1, Len(s))

\* The orders in which a set can be iterated.
Perms(S) == {s \in [1..Cardinality(S) -> S] : Range(s) = S}

\* Dependency lists of at most n entries, one entry per name.
DepLists(n) ==
    UNION {{s \in [1..k -> Deps] :
              \A i, j \in 1..k : i # j => s[i].name # s[j].name} : k \in 0..n}

\* The assignments of dependency lists to the packages of S that declare at
\* most budget dependencies in total.
RECURSIVE RequiresWithin(_, _)
RequiresWithin(S, budget) ==
    IF S = {} THEN {<<>>}
    ELSE LET p == CHOOSE q \in S : TRUE
         IN  UNION {{(p :> s) @@ r : r \in RequiresWithin(S \ {p}, budget - Len(s))} :
                      s \in DepLists(budget)}

(***************************************************************************)
(* Version bump resolution.                                                *)
(***************************************************************************)
\* The position after the longest run of digits of s starting at i.
RECURSIVE SkipDigits(_, _)
SkipDigits(s, i) ==
    IF i <= Len(s) /\ s[i] \in Digits THEN SkipDigits(s, i + 1) ELSE i

CharAt(s, i) == IF i <= Len(s) THEN s[i] ELSE "$"

\* VERSION_BUMP_RE.match(version): the named group that matched at the start
\* of the string, or "none".  re.match anchors at the start only.
VERSION_BUMP_RE(version) ==
    LET d1 == SkipDigits(version, 1)
        d2 == SkipDigits(version, d1 + 1)
    IN  IF CharAt(version, 1) = "*" THEN "major"
        ELSE IF d1 > 1 /\ CharAt(version, d1) = "." /\ CharAt(version, d1 + 1) = "*"
             THEN "minor"
        ELSE IF d1 > 1 /\ CharAt(version, d1) = "." /\ d2 > d1 + 1
                /\ CharAt(version, d2) = "." /\ CharAt(version, d2 + 1) = "*"
             THEN "patch"
        ELSE "none"

\* A resolution whose minor bump keeps the patch number.
_get_next_version_keeps_patch(version_constraint, old_version) ==
    LET group == VERSION_BUMP_RE(version_constraint)
    IN  IF group = "major" THEN <<old_version[1] + 1, 0, 0>>
        ELSE IF group = "minor"
             THEN <<old_version[1], old_version[2] + 1, old_version[3]>>
        ELSE <<old_version[1], old_version[2], old_version[3] + 1>>

_get_next_version(version_constraint, old_version) ==
    LET group == VERSION_BUMP_RE(version_constraint)
        major == old_version[1]
        minor == old_version[2]
        patch == old_version[3]
    IN  IF group = "major" THEN <<major + 1, 0, 0>>
        ELSE IF group = "minor" THEN <<major, minor + 1, 0>>
        ELSE <<major, minor, patch + 1>>

\* Dependency.accepts(package): the dependency names the package and its
\* constraint allows the package's version.
Allows(constraint, version) ==
    IF constraint.kind = "vcs" THEN TRUE
    ELSE IF constraint.kind = "wild" THEN version[1] = constraint.version[1]
    ELSE version = constraint.version

accepts(dependency, package) ==
    dependency.name = package.name /\ Allows(dependency.constraint, package.version)


(***************************************************************************)
(* State.                                                                  *)
(***************************************************************************)
VARIABLES
    cmd,                 \* the command being run: "test" or "build"
    requires,            \* manifest of each package: its main dependencies
    files,               \* generated-file names present in the working directory
    pc,                  \* position of the command
    changed_packages,    \* test: list of ModifiedPackage, in iteration order
    pending_packages,    \* test: the packages of the unchanged manifests
    affected_packages,   \* test: list of affected packages
    graph,               \* test: ordered dict  name -> list of dependency names
    known,               \* test: names peeled so far
    order,               \* test: the changed packages in peeling order
    idx,                 \* test: position in order + affected_packages
    m,                   \* the package of the current PackageManager
    has_generated,       \* PackageManager._has_generated of the current manager
    caller,              \* the method that called generate_files
    c1,                  \* install: error channel of `python setup.py install`
    global_requirements, \* test: requirements collected from the managers
    log,                 \* every external step invoked so far, in order
    raised,              \* the step whose exception reached the caller, if any
    hard,                \* position in log of the first step that left a hard
                         \* error on its error channel, 0 if none did
    preexisting,         \* the generated-file names present before the command
    arg_version,         \* ModifiedPackage: the version string of the manifest
    _old_version,        \* ModifiedPackage: the version on origin/master
    _next_version,       \* ModifiedPackage: the resolved next version
    built,               \* ModifiedPackage: "new", "package" or "RuntimeError"
    tree,                \* track_changed_paths: the directories holding a pac.toml
    out,                 \* track_changed_paths: the lines of the git diff
    line,                \* track_changed_paths: position in the lines
    package_paths,       \* track_changed_paths: the set built so far
    package_path,        \* track_changed_paths: position of the upward walk
    tpc,                 \* track_changed_paths: position of the function
    located,             \* track_changed_paths: what an earlier call returned
    documents,           \* merge: the manifest documents on disk
    merge_paths,         \* merge: changed_paths, in iteration order
    changed_pacs,        \* merge: the Pac objects created so far
    written,             \* merge: number of documents rewritten
    original,            \* merge: the manifest documents before the command
    mpc                  \* merge: position of the command

\* The variables of the test and build commands.
commandVars == <<cmd, requires, files, pc, changed_packages, pending_packages,
                 affected_packages, graph, known, order, idx, m, has_generated,
                 caller, c1, global_requirements, log, raised, hard, preexisting>>

\* The variables of the construction of one ModifiedPackage.
bumpVars == <<arg_version, _old_version, _next_version, built>>

\* The variables of one call of track_changed_paths.
trackVars == <<tree, out, line, package_paths, package_path, tpc, located>>

\* The variables of the merge command.
mergeVars == <<documents, merge_paths, changed_pacs, written, original, mpc>>

vars == <<commandVars, bumpVars, trackVars, mergeVars>>

NoPackage == "-"
NoStep == [package |-> NoPackage, command |-> "none"]

\* Package(name, version).  An unchanged manifest declares the version it
\* has on origin/master.
Package(name, version) == [name |-> name, version |-> version]

\* Package.__eq__: same name and same version.
PackageEq(p, q) == p.name = q.name /\ p.version = q.version

\* ModifiedPackage(name, version, old_version): the package at its next version.
ModifiedPackage(name, version, old_version) ==
    Package(name, _get_next_version(version, old_version))

\* The manifests of the model declare no dev-dependencies.
dev_requires(name) == <<>>

\* get_requirements losing the main requirements in test mode.
get_requirements_dev_only(name, test) ==
    IF test THEN dev_requires(name) ELSE requires[name]

\* PackageManager.get_requirements.
get_requirements(name, test) ==
    IF test THEN requires[name] \o dev_requires(name) ELSE requires[name]

\* No version: ModifiedPackage has not resolved one.
NoVersion == <<>>

\* No ModifiedPackage is under construction.
BumpIdle ==
    /\ arg_version = <<>>
    /\ _old_version = OldVersion
    /\ _next_version = NoVersion
    /\ built = "idle"

\* track_changed_paths is not running.
TrackIdle ==
    /\ tree = {}
    /\ out = <<>>
    /\ line = 0
    /\ package_paths = {}
    /\ package_path = <<>>
    /\ tpc = "idle"
    /\ located = {}

\* merge is not running.
MergeIdle ==
    /\ documents = <<>>
    /\ merge_paths = <<>>
    /\ changed_pacs = <<>>
    /\ written = 0
    /\ original = <<>>
    /\ mpc = "idle"

Init ==
    /\ BumpIdle
    /\ TrackIdle
    /\ MergeIdle
    /\ cmd \in {"test", "build"}
    /\ requires \in RequiresWithin(Pkgs, MaxDeps) \cup VCSRequires
    /\ preexisting \in {{}, {AUTOGEN_SETUP_PY}}
    /\ files = preexisting
    /\ pc = "start"
    /\ changed_packages = <<>>
    /\ pending_packages = {}
    /\ affected_packages = <<>>
    /\ graph = <<>>
    /\ known = <<>>
    /\ order = <<>>
    /\ idx = 0
    /\ m = Package(NoPackage, OldVersion)
    /\ has_generated = FALSE
    /\ caller = "none"
    /\ c1 = ErrNone
    /\ global_requirements = <<>>
    /\ log = <<>>
    /\ raised = NoStep
    /\ hard = 0

\* Neither test nor build is running.
CommandIdle ==
    /\ cmd = "none"
    /\ requires = [p \in Pkgs |-> <<>>]
    /\ preexisting = {}
    /\ files = {}
    /\ pc = "idle"
    /\ changed_packages = <<>>
    /\ pending_packages = {}
    /\ affected_packages = <<>>
    /\ graph = <<>>
    /\ known = <<>>
    /\ order = <<>>
    /\ idx = 0
    /\ m = Package(NoPackage, OldVersion)
    /\ has_generated = FALSE
    /\ caller = "none"
    /\ c1 = ErrNone
    /\ global_requirements = <<>>
    /\ log = <<>>
    /\ raised = NoStep
    /\ hard = 0

(***************************************************************************)
(* The cleanup decorator: whatever the wrapped command does, the three     *)
(* generated files are removed when it returns or raises.                  *)
(***************************************************************************)
\* A decorator that leaves the files in place.
cleanup_skipped(present) == present

cleanup(present) == present \ AutogenFiles

\* An exception leaves the command: cleanup runs and the caller sees a
\* RuntimeError.
Raise(present, step, newlog) ==
    /\ pc' = "failed"
    /\ files' = cleanup(present)
    /\ raised' = step
    /\ log' = newlog

Entry(package, command) == [package |-> package, command |-> command]

\* The first hard error: err is what the step appended at position `at`
\* of the log left on its error channel.
Hard(err, at) == IF hard = 0 /\ err = ErrHard THEN at ELSE hard

\* A check that takes every text for advisory.
AdvisoryAlways(err) == TRUE

\* A check that takes every text but the empty one for advisory.
AdvisoryNonEmpty(err) == err # ErrNone

\* What the code takes for an advisory text: `"warning" in c.err or c.err == ""`.
Advisory(err) == err = ErrWarning \/ err = ErrNone

(***************************************************************************)
(* test, lines 339-350: the branch query, the changed and pending paths,   *)
(* and the packages built from their manifests.  The version strings of    *)
(* the changed manifests are read here; manifests_ok says whether every    *)
(* manifest passes Pac.create's checks and every old version resolves.     *)
(***************************************************************************)
\* Pending paths that keep the changed ones.
pending_paths_all(all_paths, changed_paths) == all_paths

pending_paths(all_paths, changed_paths) == all_paths \ changed_paths

TestCreate ==
    /\ pc = "start"
    /\ cmd = "test"
    /\ \E branch_err \in Errs, manifests_ok \in BOOLEAN, changed_paths \in SUBSET Pkgs :
         \E iteration \in Perms(changed_paths), version \in [changed_paths -> Tokens] :
            IF \/ branch_err # ErrNone
               \/ ~manifests_ok
               \/ \E p \in changed_paths : VERSION_BUMP_RE(version[p]) = "none"
            THEN /\ Raise(files, Entry(NoPackage, "create"), log)
                 /\ UNCHANGED <<changed_packages, pending_packages>>
            ELSE /\ changed_packages' =
                        [i \in 1..Len(iteration) |->
                            ModifiedPackage(iteration[i], version[iteration[i]], OldVersion)]
                 /\ pending_packages' =
                        {Package(p, OldVersion) : p \in pending_paths(Pkgs, changed_paths)}
                 /\ pc' = "propagate"
                 /\ UNCHANGED <<files, log, raised>>
    /\ UNCHANGED <<bumpVars, trackVars, mergeVars>>
    /\ UNCHANGED <<cmd, requires, preexisting, hard, affected_packages, graph, known, order, idx, m,
                   has_generated, caller, c1, global_requirements>>

(***************************************************************************)
(* test, lines 351-385: the affected packages and the dependency graph of  *)
(* the changed packages.                                                   *)
(***************************************************************************)
\* A name index built over every package of the repository.
package_names_all(changed) ==
    [n \in Pkgs |->
        IF n \in Names(changed)
        THEN changed[CHOOSE i \in 1..Len(changed) : changed[i].name = n]
        ELSE Package(n, OldVersion)]

\* package_names = {package.name: package for package in changed_packages}
package_names(changed) ==
    [n \in Names(changed) |-> changed[CHOOSE i \in 1..Len(changed) : changed[i].name = n]]

InPackages(package, packages) == \E q \in packages : PackageEq(package, q)

\* The scan under the opposite policy: affected when the constraint rejects.
RECURSIVE ScanRequiresRejects(_, _, _, _, _)
ScanRequiresRejects(package, deps, i, changed, affected) ==
    IF i > Len(deps) THEN affected
    ELSE LET dependency == deps[i]
             names == package_names(changed)
         IN  IF dependency.name \notin DOMAIN names
               THEN ScanRequiresRejects(package, deps, i + 1, changed, affected)
             ELSE IF ~accepts(dependency, names[dependency.name])
               THEN ScanRequiresRejects(package, deps, i + 1, changed,
                                        affected \cup {package})
             ELSE ScanRequiresRejects(package, deps, i + 1, changed, affected)

\* The loop over package.requires of lines 360-370, from dependency i on.
RECURSIVE ScanRequires(_, _, _, _, _)
ScanRequires(package, deps, i, changed, affected) ==
    IF i > Len(deps) THEN affected
    ELSE LET dependency == deps[i]
             names == package_names(changed)
         IN  IF dependency.name \notin DOMAIN names
               THEN ScanRequires(package, deps, i + 1, changed, affected)
             ELSE IF InPackages(package, affected)
               THEN ScanRequires(package, deps, i + 1, changed, affected)
             ELSE IF accepts(dependency, names[dependency.name])
               THEN ScanRequires(package, deps, i + 1, changed, affected \cup {package})
             ELSE ScanRequires(package, deps, i + 1, changed, affected)

\* The loop over pending_packages of lines 355-370.
Affected(pending, changed) ==
    UNION {IF InPackages(package, Range(changed)) THEN {}
           ELSE ScanRequires(package, requires[package.name], 1, changed, {}) :
           package \in pending}

\* graph[package.name] of lines 379-385.
GraphDeps(deps, changed) ==
    SelectSeq([i \in 1..Len(deps) |-> deps[i].name],
              LAMBDA n : n \in DOMAIN package_names(changed))

Propagate ==
    /\ pc = "propagate"
    /\ \E listed \in Perms(Affected(pending_packages, changed_packages)) :
         affected_packages' = listed
    /\ graph' = [i \in 1..Len(changed_packages) |->
                    [name |-> changed_packages[i].name,
                     deps |-> GraphDeps(requires[changed_packages[i].name],
                                        changed_packages)]]
    /\ known' = <<>>
    /\ pc' = "peel"
    /\ UNCHANGED <<bumpVars, trackVars, mergeVars>>
    /\ UNCHANGED <<cmd, requires, preexisting, hard, files, changed_packages, pending_packages, order,
                   idx, m, has_generated, caller, c1, global_requirements, log, raised>>

(***************************************************************************)
(* test, lines 387-404: the peeling loop.                                  *)
(***************************************************************************)
GraphIndex(g, name) == CHOOSE i \in 1..Len(g) : g[i].name = name

\* `for dep in graph[pack_name]: if dep in known: graph[pack_name].remove(dep)`
\* The list is changed while it is iterated by position, so the entry that
\* follows a removed one is not visited in this pass.
RECURSIVE RemoveKnown(_, _, _)
RemoveKnown(deps, i, names) ==
    IF i > Len(deps) THEN deps
    ELSE IF deps[i] \in Range(names)
         THEN RemoveKnown(RemoveAt(deps, IndexOf(deps, deps[i])), i + 1, names)
         ELSE RemoveKnown(deps, i + 1, names)

\* The for loop over graph_copy.keys() of lines 390-398.
RECURSIVE PeelKeys(_, _, _)
PeelKeys(keys, g, names) ==
    IF keys = <<>> THEN [graph |-> g, known |-> names]
    ELSE LET i == GraphIndex(g, Head(keys))
         IN  IF Len(g[i].deps) = 0
             THEN PeelKeys(Tail(keys), RemoveAt(g, i), Append(names, Head(keys)))
             ELSE PeelKeys(Tail(keys),
                           [g EXCEPT ![i].deps = RemoveKnown(@, 1, names)],
                           names)

\* One pass of the body of `while True`.
PeelRound ==
    /\ pc = "peel"
    /\ LET keys == [i \in 1..Len(graph) |-> graph[i].name]
           pass == PeelKeys(keys, graph, known)
       IN  /\ graph' = pass.graph
           /\ known' = pass.known
    /\ pc' = "peel_check"
    /\ UNCHANGED <<bumpVars, trackVars, mergeVars>>
    /\ UNCHANGED <<cmd, requires, preexisting, hard, files, changed_packages, pending_packages,
                   affected_packages, order, idx, m, has_generated, caller, c1,
                   global_requirements, log, raised>>

\* A loop that walks the ordered changed packages only.
ScheduleChangedOnly(ordered, affected) == ordered

\* order + affected_packages, the sequence the pipeline loop walks (line 408).
Schedule(ordered, affected) == ordered \o affected

\* m = PackageManager(package, test=True); m.install() enters generate_files.
StartPackage(i, schedule) ==
    IF i <= Len(schedule)
    THEN /\ idx' = i
         /\ m' = schedule[i]
         /\ has_generated' = FALSE
         /\ caller' = "install"
         /\ pc' = "generate_setup"
    ELSE /\ idx' = i
         /\ pc' = "global"
         /\ UNCHANGED <<m, has_generated, caller>>

\* `if len(graph) == 0: break`, then lines 403-408.
PeelCheck ==
    /\ pc = "peel_check"
    /\ IF Len(graph) = 0
       THEN /\ order' = [i \in 1..Len(known) |-> package_names(changed_packages)[known[i]]]
            /\ StartPackage(1, Schedule(order', affected_packages))
       ELSE /\ pc' = "peel"
            /\ UNCHANGED <<order, idx, m, has_generated, caller>>
    /\ UNCHANGED <<bumpVars, trackVars, mergeVars>>
    /\ UNCHANGED <<cmd, requires, preexisting, hard, files, changed_packages, pending_packages,
                   affected_packages, graph, known, c1, global_requirements, log,
                   raised>>

(***************************************************************************)
(* build, lines 439-456.                                                   *)
(***************************************************************************)
\* The names the --name option takes in the model: none, a package of the
\* repository, a name no manifest declares.
BuildNames == Pkgs \cup {"", "unknown"}

\* upload(): `if not self._has_generated: self.generate_files()`
UploadEntry(generated) == IF generated THEN "sdist" ELSE "generate_setup"

BuildFind ==
    /\ pc = "start"
    /\ cmd = "build"
    /\ \E name \in BuildNames, manifests_ok \in BOOLEAN :
         IF name \in Pkgs /\ manifests_ok
         THEN /\ m' = Package(name, OldVersion)
              /\ has_generated' = FALSE
              /\ caller' = "upload"
              /\ pc' = UploadEntry(FALSE)
              /\ UNCHANGED <<files, log, raised>>
         ELSE /\ Raise(files, Entry(NoPackage, "create"), log)
              /\ UNCHANGED <<m, has_generated, caller>>
    /\ UNCHANGED <<bumpVars, trackVars, mergeVars>>
    /\ UNCHANGED <<cmd, requires, preexisting, hard, changed_packages, pending_packages,
                   affected_packages, graph, known, order, idx, c1,
                   global_requirements>>

(***************************************************************************)
(* PackageManager: the steps of one package's pipeline.  Each external     *)
(* command is one action; err is what the command leaves on its error      *)
(* channel.                                                                *)
(***************************************************************************)
\* generate_files sets _has_generated and calls generate_setup, which
\* writes setup.py.
GenerateSetup ==
    /\ pc = "generate_setup"
    /\ has_generated' = TRUE
    /\ files' = files \cup {AUTOGEN_SETUP_PY}
    /\ log' = Append(log, Entry(m.name, "generate_setup"))
    /\ pc' = "pip_compile"
    /\ UNCHANGED <<bumpVars, trackVars, mergeVars>>
    /\ UNCHANGED <<cmd, requires, preexisting, hard, changed_packages, pending_packages,
                   affected_packages, graph, known, order, idx, m, caller, c1,
                   global_requirements, raised>>

\* generate_requirements_text: writes requirements.ini, runs pip-compile,
\* raises on any text on the error channel; pip-compile leaves
\* requirements.txt.  The code starts the command with delegator.run and
\* once more with c.run() before it reads c.err: the step is one call of
\* generate_requirements_text, with the one error channel the code reads.
PipCompile ==
    /\ pc = "pip_compile"
    /\ \E err \in Errs :
         LET step == Entry(m.name, "pip_compile")
             present == files \cup {AUTOGEN_REQ_INI}
         IN  /\ hard' = Hard(err, Len(log) + 1)
             /\ IF err # ErrNone
                THEN Raise(present, step, Append(log, step))
                ELSE /\ files' = present \cup {AUTOGEN_REQ_TXT}
                     /\ log' = Append(log, step)
                     /\ pc' = IF caller = "install" THEN "setup_install" ELSE "sdist"
                     /\ UNCHANGED raised
    /\ UNCHANGED <<bumpVars, trackVars, mergeVars>>
    /\ UNCHANGED <<cmd, requires, preexisting, changed_packages, pending_packages,
                   affected_packages, graph, known, order, idx, m, has_generated,
                   caller, c1, global_requirements>>

\* install, line 289: c1 = `python setup.py install`.
SetupInstall ==
    /\ pc = "setup_install"
    /\ \E err \in Errs :
         /\ c1' = err
         /\ hard' = Hard(err, Len(log) + 1)
    /\ log' = Append(log, Entry(m.name, "setup_install"))
    /\ pc' = "pip_install"
    /\ UNCHANGED <<bumpVars, trackVars, mergeVars>>
    /\ UNCHANGED <<cmd, requires, preexisting, files, changed_packages, pending_packages,
                   affected_packages, graph, known, order, idx, m, has_generated,
                   caller, global_requirements, raised>>

\* install, lines 290-301: c2 = `pip install -r requirements.txt`, then the
\* check of c1 and c2 in that order.
PipInstall ==
    /\ pc = "pip_install"
    /\ \E c2 \in Errs :
         LET step == Entry(m.name, "pip_install")
         IN  /\ hard' = Hard(c2, Len(log) + 1)
             /\ IF ~Advisory(c1)
                  THEN Raise(files, Entry(m.name, "setup_install"), Append(log, step))
                ELSE IF ~Advisory(c2)
                  THEN Raise(files, step, Append(log, step))
                ELSE /\ log' = Append(log, step)
                     /\ pc' = "pytest"
                     /\ UNCHANGED <<files, raised>>
    /\ c1' = ErrNone
    /\ UNCHANGED <<bumpVars, trackVars, mergeVars>>
    /\ UNCHANGED <<cmd, requires, preexisting, changed_packages, pending_packages,
                   affected_packages, graph, known, order, idx, m, has_generated,
                   caller, global_requirements>>

\* test, lines 303-308, then upload's entry (lines 311-312).
Pytest ==
    /\ pc = "pytest"
    /\ \E err \in Errs :
         LET step == Entry(m.name, "pytest")
         IN  /\ hard' = Hard(err, Len(log) + 1)
             /\ IF err # ErrNone
                THEN /\ Raise(files, step, Append(log, step))
                     /\ UNCHANGED caller
                ELSE /\ log' = Append(log, step)
                     /\ caller' = "upload"
                     /\ pc' = UploadEntry(has_generated)
                     /\ UNCHANGED <<files, raised>>
    /\ UNCHANGED <<bumpVars, trackVars, mergeVars>>
    /\ UNCHANGED <<cmd, requires, preexisting, changed_packages, pending_packages,
                   affected_packages, graph, known, order, idx, m, has_generated,
                   c1, global_requirements>>

\* upload, lines 314-320: `python setup.py sdist`.
Sdist ==
    /\ pc = "sdist"
    /\ \E err \in Errs :
         LET step == Entry(m.name, "sdist")
         IN  /\ hard' = Hard(err, Len(log) + 1)
             /\ IF ~Advisory(err)
                THEN Raise(files, step, Append(log, step))
                ELSE /\ log' = Append(log, step)
                     /\ pc' = "twine"
                     /\ UNCHANGED <<files, raised>>
    /\ UNCHANGED <<bumpVars, trackVars, mergeVars>>
    /\ UNCHANGED <<cmd, requires, preexisting, changed_packages, pending_packages,
                   affected_packages, graph, known, order, idx, m, has_generated,
                   caller, c1, global_requirements>>

\* upload, lines 322-333: the environment lookups and `twine upload`; then,
\* in test, line 417 and the next turn of the loop of line 408; in build,
\* the return of the command.
Twine ==
    /\ pc = "twine"
    /\ \E environ_ok \in BOOLEAN, err \in Errs :
         LET step == Entry(m.name, "twine")
         IN  IF ~environ_ok
               THEN /\ Raise(files, step, log)
                    /\ UNCHANGED <<idx, m, has_generated, caller, global_requirements,
                                   hard>>
             ELSE IF err # ErrNone
               THEN /\ Raise(files, step, Append(log, step))
                    /\ hard' = Hard(err, Len(log) + 1)
                    /\ UNCHANGED <<idx, m, has_generated, caller, global_requirements>>
             ELSE IF cmd = "test"
               THEN /\ log' = Append(log, step)
                    /\ UNCHANGED hard
                    /\ global_requirements' =
                           global_requirements \o get_requirements(m.name, TRUE)
                    /\ StartPackage(idx + 1, Schedule(order, affected_packages))
                    /\ UNCHANGED <<files, raised>>
             ELSE /\ log' = Append(log, step)
                  /\ pc' = "done"
                  /\ files' = cleanup(files)
                  /\ UNCHANGED <<idx, m, has_generated, caller, global_requirements,
                                 raised, hard>>
    /\ UNCHANGED <<bumpVars, trackVars, mergeVars>>
    /\ UNCHANGED <<cmd, requires, preexisting, changed_packages, pending_packages,
                   affected_packages, graph, known, order, c1>>

\* test, lines 421-422: generate_requirements_text(global_requirements).
GlobalCompile ==
    /\ pc = "global"
    /\ \E err \in Errs :
         LET step == Entry(NoPackage, "pip_compile")
             present == files \cup {AUTOGEN_REQ_INI}
         IN  /\ hard' = Hard(err, Len(log) + 1)
             /\ IF err # ErrNone
                THEN Raise(present, step, Append(log, step))
                ELSE /\ log' = Append(log, step)
                     /\ pc' = "done"
                     /\ files' = cleanup(present \cup {AUTOGEN_REQ_TXT})
                     /\ UNCHANGED raised
    /\ UNCHANGED <<bumpVars, trackVars, mergeVars>>
    /\ UNCHANGED <<cmd, requires, preexisting, changed_packages, pending_packages,
                   affected_packages, graph, known, order, idx, m, has_generated,
                   caller, c1, global_requirements>>

Next ==
    \/ TestCreate
    \/ Propagate
    \/ PeelRound
    \/ PeelCheck
    \/ BuildFind
    \/ GenerateSetup
    \/ PipCompile
    \/ SetupInstall
    \/ PipInstall
    \/ Pytest
    \/ Sdist
    \/ Twine
    \/ GlobalCompile

Spec == Init /\ [][Next]_vars

\* The commands are sequential programs: a step that can be taken is taken.
FairSpec == Spec /\ WF_vars(Next)

(***************************************************************************)
(* ModifiedPackage.__init__ (lines 100-106) on its own: one construction   *)
(* from a version string and an old version.                               *)
(***************************************************************************)
\* Longest version string of a manifest.
MaxLen == 5

\* Largest component of the version on origin/master.
MaxPart == 1

\* The characters of a version string: a digit, the dot, the star and a
\* character that is none of these.
Chars == {"1", ".", "*", "x"}

VersionStrings == UNION {[1..n -> Chars] : n \in 0..MaxLen}

\* What VERSION_RE captures from origin/master: three numbers.
OldVersions == (0..MaxPart) \X (0..MaxPart) \X (0..MaxPart)

BumpInit ==
    /\ CommandIdle
    /\ TrackIdle
    /\ MergeIdle
    /\ arg_version \in VersionStrings
    /\ _old_version \in OldVersions
    /\ _next_version = NoVersion
    /\ built = "new"

\* ModifiedPackage(name, version, old_version): raises when the pattern
\* does not match, else resolves the next version and builds the package.
NewModifiedPackage ==
    /\ built = "new"
    /\ IF VERSION_BUMP_RE(arg_version) = "none"
       THEN /\ built' = "RuntimeError"
            /\ UNCHANGED _next_version
       ELSE /\ _next_version' = _get_next_version(arg_version, _old_version)
            /\ built' = "package"
    /\ UNCHANGED <<arg_version, _old_version>>
    /\ UNCHANGED <<commandVars, trackVars, mergeVars>>

BumpNext == NewModifiedPackage

BumpSpec == BumpInit /\ [][BumpNext]_vars

(***************************************************************************)
(* track_changed_paths (lines 209-233) on its own.  A directory is the     *)
(* sequence of its components below the repository root, a changed file    *)
(* is given by its directory and its suffix.  The last line of the diff,   *)
(* the empty string after the final newline, has no suffix and is skipped  *)
(* like any file that is not Python.                                       *)
(***************************************************************************)
\* Number of lines of `git diff origin/master --name-only`.
MaxLines == 2

ROOT_PATH == <<>>

Dirs == {<<>>, <<"a">>, <<"a", "tests">>, <<"b">>}

Suffixes == {".py", ".md"}

ChangedFiles == [dir : Dirs, suffix : Suffixes]

Listings == UNION {[1..n -> ChangedFiles] : n \in 0..MaxLines}

\* The orders in which the lines of a listing can come.
Reorderings(listing) ==
    {[i \in 1..Len(listing) |-> listing[f[i]]] : f \in Perms(1..Len(listing))}

\* A sequence of ancestors in which the root is its own parent.
parents_closed(dir) ==
    IF dir = <<>> THEN << <<>> >>
    ELSE [i \in 1..Len(dir) |-> SubSeq(dir, 1, Len(dir) - i)]

\* Path(dir).parents: the ancestors of dir, nearest first (Python counts
\* them from 0); the root has none.
parents(dir) == [i \in 1..Len(dir) |-> SubSeq(dir, 1, Len(dir) - i)]

\* `"tests" in str(package_path)`; with the directory names of the model
\* the substring test is a test on the components.
InTests(dir) == "tests" \in Range(dir)

\* Lines 218-220: the directory the walk starts from.
WalkStart(file) == IF InTests(file.dir) THEN parents(file.dir)[1] ELSE file.dir

\* Line 233: the manifests of the directories found.
Returned(paths) == {Append(dir, "pac.toml") : dir \in paths}

TrackInit ==
    /\ CommandIdle
    /\ BumpIdle
    /\ MergeIdle
    /\ tree \in SUBSET Dirs
    /\ out \in Listings
    /\ line = 1
    /\ package_paths = {}
    /\ package_path = <<>>
    /\ tpc = "line"
    /\ located = {}

\* Lines 213-216: a line that is no Python file is skipped.
TrackSkip ==
    /\ tpc = "line"
    /\ line <= Len(out)
    /\ out[line].suffix # ".py"
    /\ line' = line + 1
    /\ UNCHANGED <<tree, out, package_paths, package_path, tpc, located>>
    /\ UNCHANGED <<commandVars, bumpVars, mergeVars>>

\* Lines 218-224: the start of the walk, and the removal of the root from
\* the set built by the lines before this one.
TrackStart ==
    /\ tpc = "line"
    /\ line <= Len(out)
    /\ out[line].suffix = ".py"
    /\ package_path' = WalkStart(out[line])
    /\ package_paths' = package_paths \ {ROOT_PATH}
    /\ tpc' = "walk"
    /\ UNCHANGED <<tree, out, line, located>>
    /\ UNCHANGED <<commandVars, bumpVars, mergeVars>>

\* Lines 226-231: one turn of `while True`; parents[0] of the root raises
\* IndexError.
TrackWalk ==
    /\ tpc = "walk"
    /\ IF package_path \in tree
       THEN /\ package_paths' = package_paths \cup {package_path}
            /\ line' = line + 1
            /\ tpc' = "line"
            /\ UNCHANGED package_path
       ELSE IF parents(package_path) = <<>>
       THEN /\ tpc' = "IndexError"
            /\ UNCHANGED <<package_paths, package_path, line>>
       ELSE /\ package_path' = parents(package_path)[1]
            /\ UNCHANGED <<package_paths, line, tpc>>
    /\ UNCHANGED <<tree, out, located>>
    /\ UNCHANGED <<commandVars, bumpVars, mergeVars>>

\* Line 233: the loop is over, the set of manifests is returned.
TrackReturn ==
    /\ tpc = "line"
    /\ line > Len(out)
    /\ tpc' = "returned"
    /\ UNCHANGED <<tree, out, line, package_paths, package_path, located>>
    /\ UNCHANGED <<commandVars, bumpVars, mergeVars>>

\* A second call on the same changed files and the same tree, the diff
\* listing the files in any order.
TrackAgain ==
    /\ tpc = "returned"
    /\ located = {}
    /\ located' = {Returned(package_paths)}
    /\ out' \in Reorderings(out)
    /\ line' = 1
    /\ package_paths' = {}
    /\ package_path' = <<>>
    /\ tpc' = "line"
    /\ UNCHANGED tree
    /\ UNCHANGED <<commandVars, bumpVars, mergeVars>>

TrackNext ==
    \/ TrackSkip
    \/ TrackStart
    \/ TrackWalk
    \/ TrackReturn
    \/ TrackAgain

TrackSpec == TrackInit /\ [][TrackNext]_vars

\* The function is sequential code: a step that can be taken is taken.
FairTrackSpec == TrackSpec /\ WF_vars(TrackNext)

(***************************************************************************)
(* Pac.create (lines 160-199) and the merge command (lines 426-433).  A    *)
(* manifest document is given by the name it declares, its version string  *)
(* and what is wrong with it, if anything: its shape (no [package]         *)
(* section, or a schema violation) or the version origin/master holds.     *)
(***************************************************************************)
\* A declared package name that is not the name of the directory.
Misnamed == "misnamed"

Defects == {"none", "shape", "old_version"}

Documents ==
    {d \in [Pkgs -> [name : Pkgs \cup {Misnamed}, version : Tokens, defect : Defects]] :
        \A path \in Pkgs : d[path].name \in {path, Misnamed}}

\* The f-strings of lines 122-128: a version as the string written to a
\* manifest.
Str(n) == <<"0", "1", "2", "3", "4", "5", "6", "7", "8", "9">>[n + 1]

Format(v) == <<Str(v[1]), ".", Str(v[2]), ".", Str(v[3])>>

\* Pac.create(pac_file, modified=True) on a manifest below the root: the
\* exception it raises, or the Pac it returns.
Create(path, local_config) ==
    IF local_config.defect = "shape"
      THEN [raises |-> "ValidationError"]
    ELSE IF path # local_config.name
      THEN [raises |-> "RuntimeWarning"]
    ELSE IF local_config.defect = "old_version"
      THEN [raises |-> "RuntimeError"]
    ELSE IF VERSION_BUMP_RE(local_config.version) = "none"
      THEN [raises |-> "RuntimeError"]
    ELSE [raises |-> "nothing",
          file |-> path,
          local_config |-> local_config,
          next_version |-> Format(_get_next_version(local_config.version, OldVersion))]

\* A merge that builds the Pac objects lazily, one ahead of each write.
ListBuiltLazily(created, paths) == Len(created) > 0

\* Line 429 is a list comprehension: the loop of line 430 starts when a Pac
\* has been created for every changed path.
ListBuilt(created, paths) == Len(created) = Len(paths)

MergeInit ==
    /\ CommandIdle
    /\ BumpIdle
    /\ TrackIdle
    /\ documents \in Documents
    /\ original = documents
    /\ \E changed_paths \in SUBSET Pkgs : merge_paths \in Perms(changed_paths)
    /\ changed_pacs = <<>>
    /\ written = 0
    /\ mpc = "merge"

\* Line 429: Pac.create for the next changed path.
MergeCreate ==
    /\ mpc = "merge"
    /\ Len(changed_pacs) < Len(merge_paths)
    /\ LET path == merge_paths[Len(changed_pacs) + 1]
           pac == Create(path, documents[path])
       IN  IF pac.raises # "nothing"
           THEN /\ mpc' = pac.raises
                /\ UNCHANGED changed_pacs
           ELSE /\ changed_pacs' = Append(changed_pacs, pac)
                /\ UNCHANGED mpc
    /\ UNCHANGED <<documents, merge_paths, written, original>>
    /\ UNCHANGED <<commandVars, bumpVars, trackVars>>

\* Lines 430-433: the version of the next Pac is set and its document is
\* written to its file.
MergeWrite ==
    /\ mpc = "merge"
    /\ ListBuilt(changed_pacs, merge_paths)
    /\ written < Len(changed_pacs)
    /\ LET pac == changed_pacs[written + 1]
       IN  documents' =
              [documents EXCEPT ![pac.file] =
                  [pac.local_config EXCEPT !.version = pac.next_version]]
    /\ written' = written + 1
    /\ UNCHANGED <<merge_paths, changed_pacs, original, mpc>>
    /\ UNCHANGED <<commandVars, bumpVars, trackVars>>

\* The command returns.
MergeReturn ==
    /\ mpc = "merge"
    /\ Len(changed_pacs) = Len(merge_paths)
    /\ written = Len(changed_pacs)
    /\ mpc' = "done"
    /\ UNCHANGED <<documents, merge_paths, changed_pacs, written, original>>
    /\ UNCHANGED <<commandVars, bumpVars, trackVars>>

MergeNext ==
    \/ MergeCreate
    \/ MergeWrite
    \/ MergeReturn

MergeSpec == MergeInit /\ [][MergeNext]_vars

(***************************************************************************)
(* Properties.                                                             *)
(***************************************************************************)
\* The affected set has been computed.
Propagated ==
    /\ cmd = "test"
    /\ pc \notin {"start", "propagate"}
    /\ raised # Entry(NoPackage, "create")

ChangedNames == Names(changed_packages)

ChangedNamed(name) == package_names(changed_packages)[name]

IsAffected(package) == package \in Range(affected_packages)

\* The positions in P's main dependencies that name a changed package.
OnChanged(package) ==
    {i \in 1..Len(requires[package.name]) :
        requires[package.name][i].name \in ChangedNames}

Wild1 == [kind |-> "wild", version |-> <<1, 0, 0>>]
Pin100 == [kind |-> "exact", version |-> <<1, 0, 0>>]

\* C1 as stated: a pending package with a dependency on a changed package
\* is affected if and only if that dependency's constraint does not accept
\* the changed package's next version.
C1_AffectedIffRejects ==
    Propagated =>
        \A P \in pending_packages : \A i \in OnChanged(P) :
            LET d == requires[P.name][i]
            IN  IsAffected(P) <=> ~accepts(d, ChangedNamed(d.name))

\* C1 amended: a pending package is affected if and only if one of its main
\* dependencies on a changed package accepts that package's next version;
\* with range 1.* and next version 1.1.0 it is affected, and with only pins
\* 1.0.0 on changed packages at next version 1.1.0 it is not.
C1_AffectedIffAccepts ==
    Propagated =>
        \A P \in pending_packages :
            /\ IsAffected(P) <=>
                  \E i \in OnChanged(P) :
                     accepts(requires[P.name][i], ChangedNamed(requires[P.name][i].name))
            /\ (\E i \in OnChanged(P) :
                   /\ requires[P.name][i].constraint = Wild1
                   /\ ChangedNamed(requires[P.name][i].name).version = <<1, 1, 0>>)
                => IsAffected(P)
            /\ (\A i \in OnChanged(P) :
                   /\ requires[P.name][i].constraint = Pin100
                   /\ ChangedNamed(requires[P.name][i].name).version = <<1, 1, 0>>)
                => ~IsAffected(P)

\* Both cases of C1 at once: P reaches a changed package at 1.1.0 through
\* the range 1.* and is affected, Q through the pin 1.0.0 and is not.
C1_Witness ==
    /\ Propagated
    /\ \E P, Q \in pending_packages :
         /\ \E i \in OnChanged(P) :
               /\ requires[P.name][i].constraint = Wild1
               /\ ChangedNamed(requires[P.name][i].name).version = <<1, 1, 0>>
         /\ IsAffected(P)
         /\ OnChanged(Q) # {}
         /\ \A i \in OnChanged(Q) : requires[Q.name][i].constraint = Pin100
         /\ ~IsAffected(Q)

\* The names of the packages whose pipelines the test command runs.
Scheduled == Names(order) \cup Names(affected_packages)

\* C2: whenever the pipeline of a package P starts, the pipeline of every
\* other scheduled package that P declares a main dependency on has
\* completed (its last step, the upload, is in the log).
C2_DependenciesRunFirst ==
    cmd = "test" =>
        \A i \in 1..Len(log) :
            log[i].command = "generate_setup" =>
                \A D \in (Names(requires[log[i].package]) \cap Scheduled)
                            \ {log[i].package} :
                    \E j \in 1..(i - 1) : log[j] = Entry(D, "twine")

\* The graph has a set of packages each of which depends on one of the set.
HasCycle(g) ==
    \E S \in (SUBSET {g[i].name : i \in 1..Len(g)}) \ {{}} :
        \A i \in 1..Len(g) :
            g[i].name \in S => Range(g[i].deps) \cap S # {}

\* C3: when the graph of the changed packages has a cycle, the ordering
\* step ends and the command reports an error.
C3_CycleReported == (pc = "peel" /\ HasCycle(graph)) ~> (pc = "failed")

Terminated == pc \in {"done", "failed"}

\* C4: when the test or build command has ended, normally or by an
\* exception, none of setup.py, requirements.ini, requirements.txt exists.
C4_GeneratedFilesRemoved == Terminated => files \cap AutogenFiles = {}

\* A test step failed after the install of the same package succeeded, and
\* the files it had generated are gone.
C4_Witness ==
    /\ pc = "failed"
    /\ raised.command = "pytest"
    /\ \E i \in 1..Len(log) : log[i] = Entry(raised.package, "pip_install")
    /\ \E i \in 1..Len(log) : log[i] = Entry(raised.package, "pip_compile")
    /\ files \cap AutogenFiles = {}

GlobalStep == Entry(NoPackage, "pip_compile")

PipelineSteps ==
    <<"generate_setup", "pip_compile", "setup_install", "pip_install", "pytest",
      "sdist", "twine">>

\* The steps logged for a package, in log order.
StepsOf(package) ==
    LET entries == SelectSeq(log, LAMBDA e : e.package = package)
    IN  [i \in 1..Len(entries) |-> entries[i].command]

\* C6: in test the steps of a package run in the order descriptor, lock
\* compile, package install, requirements install, test, sdist, upload, and
\* after a step has left a hard error no further step is invoked.
C6_HardFailureStopsPackage ==
    cmd = "test" =>
        /\ \A package \in Pkgs :
              StepsOf(package) = SubSeq(PipelineSteps, 1, Len(StepsOf(package)))
        /\ hard > 0 => Len(log) = hard

\* C7: when building the packages from the manifests fails, test has
\* invoked no pipeline step and the working directory holds the files it
\* held before.
C7_ValidationFailureTouchesNothing ==
    (cmd = "test" /\ raised = Entry(NoPackage, "create")) =>
        /\ log = <<>>
        /\ files = preexisting

GlobalAt == {i \in 1..Len(log) : log[i] = GlobalStep}

C9_AffectedDisjointFromChanged ==
    Propagated => Names(affected_packages) \cap ChangedNames = {}

\* A changed package that has an accepted dependency on another changed
\* package, next to a pending package that is affected.
C9_Witness ==
    /\ Propagated
    /\ affected_packages # <<>>
    /\ \E i \in 1..Len(changed_packages) :
          \E k \in OnChanged(changed_packages[i]) :
             LET d == requires[changed_packages[i].name][k]
             IN  accepts(d, ChangedNamed(d.name))

\* C10: every affected package declares a main dependency that names a
\* changed package; a package none of whose main dependencies names a
\* changed package is not affected.
C10_AffectedDependsOnChanged ==
    Propagated =>
        /\ \A i \in 1..Len(affected_packages) : OnChanged(affected_packages[i]) # {}
        /\ \A P \in pending_packages : OnChanged(P) = {} => ~IsAffected(P)

\* P depends, through an accepting range, on an affected package only, and
\* is not affected itself.
C10_Witness ==
    /\ Propagated
    /\ \E P, Q \in pending_packages :
          /\ IsAffected(Q)
          /\ ~IsAffected(P)
          /\ \E i \in 1..Len(requires[P.name]) :
                /\ requires[P.name][i].name = Q.name
                /\ requires[P.name][i].constraint = Wild1

\* The dependency is a source-control dependency.
IsVCS(dependency) == dependency.constraint = VCSDependency

\* C15: a pending package whose dependencies on changed packages are all
\* source-control dependencies is not affected.
C15_SourceControlPinsNotEvaluated ==
    Propagated =>
        \A P \in pending_packages :
            (\A i \in OnChanged(P) : IsVCS(requires[P.name][i])) => ~IsAffected(P)

\* The commands the pipeline hands to a process.
ExternalSteps ==
    {"pip_compile", "setup_install", "pip_install", "pytest", "sdist", "twine"}

\* C18: once an external step has left a text on its error channel that
\* is neither empty nor a warning, the command ends in the exception of
\* that step; the one step that can still run before it does is the
\* `pip install -r` that install() starts before it reads the error of
\* `python setup.py install`, and the exception follows it at once.
C18_HardErrorRaises ==
    /\ [](hard > 0 =>
            /\ log[hard].command \in ExternalSteps
            /\ \/ pc = "failed" /\ raised = log[hard]
               \/ /\ pc = "pip_install"
                  /\ hard = Len(log)
                  /\ log[hard].command = "setup_install")
    /\ [][(hard > 0 /\ pc = "pip_install") =>
             (pc' = "failed" /\ raised' = log[hard])]_vars

\* The error of `python setup.py install` was raised after the
\* `pip install -r` of the same package had run.
C18_Witness ==
    /\ pc = "failed"
    /\ hard > 0
    /\ hard = Len(log) - 1
    /\ log[hard].command = "setup_install"
    /\ raised = log[hard]

\* The size of what is left to peel: the packages and the dependency
\* entries of the graph.
Measure(g) ==
    Len(g) + Cardinality(UNION {{<<i, j>> : j \in 1..Len(g[i].deps)} : i \in 1..Len(g)})

\* C19: in test, a pass of the peeling loop over a graph without a cycle
\* leaves less to peel, so the loop ends; no package runs a step twice;
\* only changed and affected packages run steps; and when the command has
\* completed every changed and every affected package has run its whole
\* pipeline.
C19_EachPackageOnce ==
    /\ [](cmd = "test" =>
            \A package \in Pkgs :
               /\ StepsOf(package) = SubSeq(PipelineSteps, 1, Len(StepsOf(package)))
               /\ StepsOf(package) # <<>> =>
                     package \in ChangedNames \cup Names(affected_packages)
               /\ (pc = "done" /\ package \in ChangedNames \cup Names(affected_packages)) =>
                     StepsOf(package) = PipelineSteps)
    /\ [][(pc = "peel" /\ graph # <<>> /\ ~HasCycle(graph)) =>
             Measure(graph') < Measure(graph)]_vars

\* A completed run in which a changed package depends on another changed
\* package and a third package is affected.
C19_Witness ==
    /\ cmd = "test"
    /\ pc = "done"
    /\ Len(order) = 2
    /\ Len(affected_packages) = 1
    /\ \E i \in 1..Len(changed_packages) : OnChanged(changed_packages[i]) # {}
    /\ \A package \in Pkgs : StepsOf(package) = PipelineSteps

(***************************************************************************)
(* Version bump resolution.                                                *)
(***************************************************************************)
AllDigits(s, from, to) == \A i \in from..to : s[i] \in Digits

\* The three fuzzy shapes, each as a description of the whole string.
IsMajorShape(s) == s = <<"*">>

IsMinorShape(s) ==
    /\ Len(s) >= 3
    /\ AllDigits(s, 1, Len(s) - 2)
    /\ s[Len(s) - 1] = "."
    /\ s[Len(s)] = "*"

IsPatchShape(s) ==
    \E k \in 2..(Len(s) - 3) :
        /\ AllDigits(s, 1, k - 1)
        /\ s[k] = "."
        /\ AllDigits(s, k + 1, Len(s) - 2)
        /\ s[Len(s) - 1] = "."
        /\ s[Len(s)] = "*"

IsFuzzyShape(s) == IsMajorShape(s) \/ IsMinorShape(s) \/ IsPatchShape(s)

\* C11: a ModifiedPackage built from a valid bump token and an old version
\* (major, minor, patch) has next version (major+1, 0, 0) for `*`,
\* (major, minor+1, 0) for `N.*` and (major, minor, patch+1) for `N.N.*`.
C11_NextVersionIsTheIncrement ==
    (built # "new" /\ IsFuzzyShape(arg_version)) =>
        /\ built = "package"
        /\ IsMajorShape(arg_version) =>
              _next_version = <<_old_version[1] + 1, 0, 0>>
        /\ IsMinorShape(arg_version) =>
              _next_version = <<_old_version[1], _old_version[2] + 1, 0>>
        /\ IsPatchShape(arg_version) =>
              _next_version = <<_old_version[1], _old_version[2], _old_version[3] + 1>>

\* The minor bump 1.* of 1.1.1 gave 1.2.0.
C11_Witness ==
    /\ built = "package"
    /\ arg_version = <<"1", ".", "*">>
    /\ _old_version = <<1, 1, 1>>
    /\ _next_version = <<1, 2, 0>>

\* C12: a ModifiedPackage built from a version string that is not as a
\* whole one of the three fuzzy shapes ends in the error, with no package
\* and no next version.
C12_OtherStringsRejected ==
    (built # "new" /\ ~IsFuzzyShape(arg_version)) =>
        /\ built = "RuntimeError"
        /\ _next_version = NoVersion

(***************************************************************************)
(* Changed-path location.                                                  *)
(***************************************************************************)
\* C13: the set track_changed_paths returns never holds the manifest of
\* the repository root.
C13_RootManifestExcluded ==
    tpc = "returned" => Append(ROOT_PATH, "pac.toml") \notin Returned(package_paths)

\* C16: a second call on the same changed files, listed in any order,
\* returns the set the first call returned.
C16_SameSetWhateverTheOrder ==
    tpc = "returned" => \A earlier \in located : Returned(package_paths) = earlier

\* Some directory from dir up to the root holds a manifest.
Owned(dir) == \E i \in 0..Len(dir) : SubSeq(dir, 1, i) \in tree

\* The Python files of the diff that no manifest owns.
Unowned ==
    {i \in 1..Len(out) : out[i].suffix = ".py" /\ ~Owned(out[i].dir)}

\* C17: when the diff lists a Python file with no manifest in any
\* directory from its own up to the root, the call ends, and it ends in
\* an error: it never returns a set.
C17_UnownedFileEndsInError ==
    /\ [](Unowned # {} => tpc # "returned")
    /\ (Unowned # {}) ~> (tpc = "IndexError")

\* The walk went from a/tests up to the root, found no manifest there and
\* failed, in a repository whose only manifest is that of b.
C17_Witness ==
    /\ tpc = "IndexError"
    /\ tree = {<<"b">>}
    /\ out[line].dir = <<"a", "tests">>
    /\ package_path = ROOT_PATH

(***************************************************************************)
(* Pac.create and merge.                                                   *)
(***************************************************************************)
MergeErrors == {"ValidationError", "RuntimeWarning", "RuntimeError"}

ChangedPaths == Range(merge_paths)

\* Nothing is wrong with the manifest but, possibly, the name it declares.
SoundButForName(manifest) ==
    /\ manifest.defect = "none"
    /\ IsFuzzyShape(manifest.version)

\* C14: a changed manifest whose declared name differs from its directory
\* does not stop merge: with nothing else wrong in the changed manifests
\* the command does not end in an exception.
C14_NameMismatchIsOnlyAWarning ==
    (\A path \in ChangedPaths : SoundButForName(original[path])) =>
        mpc \notin MergeErrors

\* A ModifiedPackage can be built from the manifest.
Constructible(path) ==
    /\ SoundButForName(original[path])
    /\ original[path].name = path

\* C20: when the construction fails for one of the changed manifests,
\* merge ends in an exception and no document differs from what it was;
\* otherwise merge never fails, and when it has returned every changed
\* document holds its next version in its version field and is otherwise
\* what it was, and every other document is what it was.
C20_MergeAllOrNothing ==
    /\ (\E path \in ChangedPaths : ~Constructible(path)) =>
          /\ documents = original
          /\ mpc # "done"
    /\ mpc \in MergeErrors =>
          /\ documents = original
          /\ \E path \in ChangedPaths : ~Constructible(path)
    /\ mpc = "done" =>
          \A path \in Pkgs :
             documents[path] =
                IF path \in ChangedPaths
                THEN [original[path] EXCEPT
                        !.version = Format(_get_next_version(@, OldVersion))]
                ELSE original[path]

\* Two of three manifests changed, both were rewritten to 1.1.0.
C20_Witness ==
    /\ mpc = "done"
    /\ Len(merge_paths) = 2
    /\ \A path \in ChangedPaths :
          /\ original[path].version = <<"1", ".", "*">>
          /\ documents[path].version = <<"1", ".", "1", ".", "0">>

=============================================================================
